---- MODULE Spec2Model ----
(***************************************************************************)
(* Smart Study Platform backend: the persistence state (User, Note, Review *)
(* and DownloadHistory collections) and the HTTP requests of the notes,    *)
(* reviews, auth and download-history routers, each request handled as one *)
(* step: the middleware chain of                                           *)
(* its route, the controller, the Mongoose hooks the controller's writes   *)
(* run, and the central error handler that turns an error into a status.   *)
(*                                                                         *)
(* Ratings averages are kept in tenths (4.5 is 45), so that the rounding   *)
(* Math.round(avg * 10) / 10 is integer arithmetic.                        *)
(***************************************************************************)
EXTENDS Integers, FiniteSets, Sequences, TLC

\* ---------------------------------------------------------------- bounds
MaxNotes == 1      \* Notes ever created in a behaviour
MaxReviews == 2    \* Reviews ever created in a behaviour
MaxVotes == 1      \* votes recorded on one Review
MaxDownloads == 1  \* DownloadHistory records ever created in a behaviour
MaxDays == 6       \* calendar days a download history spans, today the last
MaxRequests == 3   \* review writes followed step by step in a behaviour
MaxResetTokens == 2  \* password-reset tokens generated in a behaviour
MaxClock == 4      \* five-minute steps the clock advances in a behaviour

\* ------------------------------------------------------- program constants
MinRating == 1
MaxRating == 5

\* ------------------------------------------------------------ the accounts
Teachers == {"t1", "t2"}
Students == {"s1", "s2"}
UserIds == Teachers \cup Students
GhostUser == "u0"          \* an id no User document has
NoUser == "anonymous"

EmailOf == [u \in UserIds |-> u]      \* unique email per account
UnknownEmail == "nobody"
Passwords == {"pw", "wrong"}
bcryptHash(pw) == <<"bcrypt", pw>>

\* crypto.createHash('sha256').update(resetToken).digest('hex'), and the
\* passwordResetToken of an account that has none
sha256(resetToken) == <<"sha256", resetToken>>
NoResetToken == <<"undefined", 0>>
NoResetLog == [generated |-> 0, accepted |-> {}]

NoteIds == 1..MaxNotes
ReviewIds == 1..MaxReviews
NoNote == [absent |-> TRUE]
NoReview == [absent |-> TRUE]
DownloadIds == 1..MaxDownloads
NoDownload == [absent |-> TRUE]

NoneCompleted == [votes |-> [r \in ReviewIds |-> 0], downloads |-> [n \in NoteIds |-> 0]]

\* request inputs
RatingInputs == {MaxRating - 1, MaxRating, MaxRating + 1}
TokenKinds == {"none", "malformed", "expired", "badsig", "valid"}
NoToken == [kind |-> "none", id |-> NoUser]
ValidToken(u) == [kind |-> "valid", id |-> u]
Tokens ==
  {NoToken}
    \cup {[kind |-> k, id |-> "s1"] : k \in {"malformed", "expired", "badsig"}}
    \cup {ValidToken(u) : u \in UserIds \cup {GhostUser}}

VARIABLES users, notes, reviews, downloads,
          nextNoteId, nextReviewId, nextDownloadId, last,
          inflight,   \* the review writes that are being handled, step by step
          accepted,   \* how many of them the controllers have accepted
          progress,   \* a download history, the clock and the streaks computed
          now,        \* Date.now(), in steps of five minutes
          resetLog,   \* the reset tokens generated so far and those accepted
          completed   \* how many votes per Review and downloads per Note were saved

vars == <<users, notes, reviews, downloads,
          nextNoteId, nextReviewId, nextDownloadId, last, inflight, accepted, progress,
          now, resetLog, completed>>

\* ------------------------------------------------------------------ errors
\* new ErrorResponse(message, statusCode)
ErrorResponse(message, statusCode) ==
  [name |-> "Error", code |-> "", message |-> message, statusCode |-> statusCode]

\* new Error(message): no statusCode
PlainError(message) ==
  [name |-> "Error", code |-> "", message |-> message, statusCode |-> 0]

\* the driver's E11000 error raised by a unique index
DuplicateKeyError ==
  [name |-> "MongoServerError", code |-> "11000",
   message |-> "E11000 duplicate key error", statusCode |-> 0]

\* messages that contain the given substring (String.prototype.includes)
MessagesWithOnly == {"Only pdf, doc, docx, txt, jpg, jpeg, png, ppt, pptx files are allowed"}
MessagesWithEconnrefused == {"connect ECONNREFUSED"}
MessagesWithTooManyRequests == {"Too many requests from this IP, please try again later."}

\* errorHandler: each test may replace the error, the last replacement wins;
\* the result is the status and the message of the JSON envelope
errorHandler(err) ==
  LET e0 == [statusCode |-> err.statusCode, message |-> err.message]
      e1 == IF err.name = "CastError"
              THEN [statusCode |-> 404, message |-> "Resource not found"] ELSE e0
      e2 == IF err.code = "11000"
              THEN [statusCode |-> 400, message |-> "already exists"] ELSE e1
      e3 == IF err.name = "ValidationError"
              THEN [statusCode |-> 400, message |-> err.message] ELSE e2
      e4 == IF err.name = "JsonWebTokenError"
              THEN [statusCode |-> 401, message |-> "Invalid token"] ELSE e3
      e5 == IF err.name = "TokenExpiredError"
              THEN [statusCode |-> 401, message |-> "Token expired"] ELSE e4
      e6 == IF err.code = "LIMIT_FILE_SIZE"
              THEN [statusCode |-> 400, message |-> "File too large. Maximum file size is 10MB"]
              ELSE e5
      e7 == IF err.code = "LIMIT_FILE_COUNT"
              THEN [statusCode |-> 400, message |-> "Too many files. Maximum 5 files allowed"]
              ELSE e6
      e8 == IF err.code = "LIMIT_UNEXPECTED_FILE"
              THEN [statusCode |-> 400, message |-> "Unexpected file field"] ELSE e7
      e9 == IF err.message \in MessagesWithOnly
              THEN [statusCode |-> 400, message |-> err.message] ELSE e8
      e10 == IF err.message \in MessagesWithEconnrefused
               THEN [statusCode |-> 500,
                     message |-> "Database connection failed. Please try again later."]
               ELSE e9
      e11 == IF err.message \in MessagesWithTooManyRequests
               THEN [statusCode |-> 429, message |-> err.message] ELSE e10
  IN [statusCode |-> IF e11.statusCode = 0 THEN 500 ELSE e11.statusCode,
      message |-> e11.message]

\* ------------------------------------------------------------- the results
\* What one request leaves behind: the response (status, message), whether
\* the route's controller function was entered, the collections, and the
\* Note and Review a successful request was about (0: none), and req.user as
\* the controller saw it where the controller is reached without protect.
Reply(status, message, handler) ==
  [status |-> status, message |-> message, handler |-> handler, user |-> NoUser,
   users |-> users, notes |-> notes, reviews |-> reviews, downloads |-> downloads,
   nextNoteId |-> nextNoteId, nextReviewId |-> nextReviewId,
   nextDownloadId |-> nextDownloadId, note |-> 0, review |-> 0]

\* next(err): the error handler answers, nothing is written
Rejected(err, handler) ==
  LET e == errorHandler(err)
  IN Reply(e.statusCode, e.message, handler)

\* ------------------------------------------------- Review model statics
\* the $match stage of getStatistics: noteId, isActive: true, isApproved: true
ReviewsOfNote(revs, noteId) ==
  {r \in ReviewIds : revs[r] # NoReview /\ revs[r].noteId = noteId}

Qualifying(revs, noteId) ==
  {r \in ReviewIds : /\ revs[r] # NoReview
                     /\ revs[r].noteId = noteId
                     /\ revs[r].isActive
                     /\ revs[r].isApproved}

RECURSIVE SumRatings(_, _)
SumRatings(revs, S) ==
  IF S = {} THEN 0
  ELSE LET r == CHOOSE x \in S : TRUE
       IN revs[r].rating + SumRatings(revs, S \ {r})

\* Math.round(avg * 10) / 10 for avg = sum / count, in tenths
\* (Math.round rounds a half up)
RoundToTenths(sum, count) == (20 * sum + count) \div (2 * count)

\* getStatistics without the $match on isActive and isApproved
getStatistics_unmatched(revs, noteId) ==
  LET Q == ReviewsOfNote(revs, noteId)
  IN IF Q = {}
       THEN [averageRating |-> 0, totalReviews |-> 0,
             ratingDistribution |-> [k \in MinRating..MaxRating |-> 0]]
       ELSE [averageRating |-> RoundToTenths(SumRatings(revs, Q), Cardinality(Q)),
             totalReviews |-> Cardinality(Q),
             ratingDistribution |->
               [k \in MinRating..MaxRating |->
                  Cardinality({r \in Q : revs[r].rating = k})]]

\* Review.getStatistics(noteId)
getStatistics(revs, noteId) ==
  LET Q == Qualifying(revs, noteId)
  IN IF Q = {}
       THEN [averageRating |-> 0, totalReviews |-> 0,
             ratingDistribution |-> [k \in MinRating..MaxRating |-> 0]]
       ELSE [averageRating |-> RoundToTenths(SumRatings(revs, Q), Cardinality(Q)),
             totalReviews |-> Cardinality(Q),
             ratingDistribution |->
               [k \in MinRating..MaxRating |->
                  Cardinality({r \in Q : revs[r].rating = k})]]

\* Note.findByIdAndUpdate(noteId, {averageRating, ratingCount}): a Note that
\* no longer exists is left alone
findByIdAndUpdateRating(nts, noteId, stats) ==
  IF noteId \in NoteIds /\ nts[noteId] # NoNote
    THEN [nts EXCEPT ![noteId].averageRating = stats.averageRating,
                     ![noteId].ratingCount = stats.totalReviews]
    ELSE nts

\* postSave that forgets the Note
postSave_skipped(revs, nts, noteId) == nts

\* ReviewSchema.post('save')
postSave(revs, nts, noteId) ==
  findByIdAndUpdateRating(nts, noteId, getStatistics(revs, noteId))

\* ReviewSchema.post('remove')
postRemove(revs, nts, noteId) ==
  findByIdAndUpdateRating(nts, noteId, getStatistics(revs, noteId))

\* the document middleware the Review schema registers, by event name
ReviewSchemaPost == {"save", "remove"}

\* A document operation runs the post middleware registered under its own
\* name: save() runs 'save', deleteOne() runs 'deleteOne'.
runPostHooks(event, revs, nts, noteId) ==
  IF event \notin ReviewSchemaPost THEN nts
  ELSE IF event = "save" THEN postSave(revs, nts, noteId)
  ELSE postRemove(revs, nts, noteId)

\* the Reviews that match {noteId, studentId}
ReviewsOf(revs, noteId, studentId) ==
  {r \in ReviewIds : /\ revs[r] # NoReview
                     /\ revs[r].noteId = noteId
                     /\ revs[r].studentId = studentId}

\* a Review collection without the unique index on (noteId, studentId)
UniqueIndexViolation_noIndex(revs, doc) == FALSE

\* ReviewSchema.index({noteId: 1, studentId: 1}, {unique: true}): inserting
\* doc would give two documents the same key
UniqueIndexViolation(revs, doc) == ReviewsOf(revs, doc.noteId, doc.studentId) # {}

\* ------------------------------------------------------------- middleware
\* jwt.verify wrapped by verifyToken: any failure is rethrown as
\* new Error('Invalid token')
verifyToken(token) ==
  IF token.kind = "valid"
    THEN [ok |-> TRUE, decoded |-> [id |-> token.id]]
    ELSE [ok |-> FALSE, error |-> PlainError("Invalid token")]

Pass(user) == [ok |-> TRUE, user |-> user]
Fail(err) == [ok |-> FALSE, error |-> err]

\* protect without the isActive check
protect_ignoringIsActive(token) ==
  IF token.kind = "none"
    THEN Fail(ErrorResponse("Access denied. No token provided.", 401))
  ELSE LET v == verifyToken(token)
       IN IF ~v.ok THEN Fail(v.error)
          ELSE IF v.decoded.id \notin DOMAIN users
            THEN Fail(ErrorResponse("Invalid token. User not found.", 401))
          ELSE Pass(v.decoded.id)

\* protect
protect(token) ==
  IF token.kind = "none"
    THEN Fail(ErrorResponse("Access denied. No token provided.", 401))
  ELSE LET v == verifyToken(token)
       IN IF ~v.ok THEN Fail(v.error)
          ELSE IF v.decoded.id \notin DOMAIN users
            THEN Fail(ErrorResponse("Invalid token. User not found.", 401))
          ELSE IF ~users[v.decoded.id].isActive
            THEN Fail(ErrorResponse("Account has been deactivated.", 401))
          ELSE Pass(v.decoded.id)

\* optionalAuth that rejects what protect rejects
optionalAuth_strict(token) == protect(token)

\* optionalAuth: a token that does not verify, or whose user is missing or
\* deactivated, is ignored; next() is always called
optionalAuth(token) ==
  IF token.kind = "none" THEN Pass(NoUser)
  ELSE LET v == verifyToken(token)
       IN IF ~v.ok THEN Pass(NoUser)
          ELSE IF v.decoded.id \in DOMAIN users /\ users[v.decoded.id].isActive
            THEN Pass(v.decoded.id)
          ELSE Pass(NoUser)

\* teacherOnly
teacherOnly(user) ==
  IF user = NoUser
    THEN Fail(ErrorResponse("Access denied. Authentication required.", 401))
  ELSE IF users[user].role # "teacher"
    THEN Fail(ErrorResponse("Access denied. Teacher access required.", 403))
  ELSE Pass(user)

\* studentOnly
studentOnly(user) ==
  IF user = NoUser
    THEN Fail(ErrorResponse("Access denied. Authentication required.", 401))
  ELSE IF users[user].role # "student"
    THEN Fail(ErrorResponse("Access denied. Student access required.", 403))
  ELSE Pass(user)

\* checkOwnership without the uploadedBy comparison
checkOwnership_anyUser(user, noteId) ==
  IF notes[noteId] = NoNote
    THEN Fail(ErrorResponse("Resource not found.", 404))
  ELSE Pass(user)

\* checkOwnership(Note)
checkOwnership(user, noteId) ==
  IF notes[noteId] = NoNote
    THEN Fail(ErrorResponse("Resource not found.", 404))
  ELSE IF notes[noteId].uploadedBy # user
    THEN Fail(ErrorResponse("Access denied. You can only modify your own resources.", 403))
  ELSE Pass(user)

\* ------------------------------------------------------ reviews controller
Undefined == -1          \* a body field that is not sent
HelpfulInputs == {"true", "false", "yes"}     \* "yes": not a boolean

\* a stored Review document (comment, categories and moderationNote are not
\* tracked)
NewReview(noteId, studentId, rating) ==
  [noteId |-> noteId, studentId |-> studentId, rating |-> rating,
   isActive |-> TRUE, isApproved |-> TRUE, helpfulVotes |-> 0, totalVotes |-> 0]

\* review.save(): write the document, then the post('save') middleware
saveReview(rid, doc, status, message) ==
  LET revs == [reviews EXCEPT ![rid] = doc]
  IN [Reply(status, message, TRUE) EXCEPT
        !.reviews = revs,
        !.notes = runPostHooks("save", revs, notes, doc.noteId),
        !.note = doc.noteId, !.review = rid]

\* createReview that overwrites the student's existing Review
createReview_upsert(user, noteId, rating) ==
  IF rating \notin MinRating..MaxRating
    THEN Rejected(ErrorResponse("Rating must be between 1 and 5", 400), TRUE)
  ELSE IF notes[noteId] = NoNote
    THEN Rejected(ErrorResponse("Note not found", 404), TRUE)
  ELSE IF ~notes[noteId].isActive \/ ~notes[noteId].isPublic
    THEN Rejected(ErrorResponse("Note is not available for review", 400), TRUE)
  ELSE IF ReviewsOf(reviews, noteId, user) # {}
    THEN LET rid == CHOOSE r \in ReviewsOf(reviews, noteId, user) : TRUE
         IN saveReview(rid, [reviews[rid] EXCEPT !.rating = rating],
                       201, "Review created successfully")
  ELSE [saveReview(nextReviewId, NewReview(noteId, user, rating),
                   201, "Review created successfully")
          EXCEPT !.nextReviewId = nextReviewId + 1]

\* createReview, after protect, studentOnly and validateReview
createReview(user, noteId, rating) ==
  IF rating \notin MinRating..MaxRating
    THEN Rejected(ErrorResponse("Rating must be between 1 and 5", 400), TRUE)
  ELSE IF notes[noteId] = NoNote
    THEN Rejected(ErrorResponse("Note not found", 404), TRUE)
  ELSE IF ~notes[noteId].isActive \/ ~notes[noteId].isPublic
    THEN Rejected(ErrorResponse("Note is not available for review", 400), TRUE)
  ELSE IF ReviewsOf(reviews, noteId, user) # {}
    THEN Rejected(ErrorResponse("You have already reviewed this note. Use update instead.", 400),
                  TRUE)
  ELSE \* Review.create: the unique index, the insert, post('save')
       IF UniqueIndexViolation(reviews, NewReview(noteId, user, rating))
         THEN Rejected(DuplicateKeyError, TRUE)
       ELSE [saveReview(nextReviewId, NewReview(noteId, user, rating),
                        201, "Review created successfully")
               EXCEPT !.nextReviewId = nextReviewId + 1]

\* updateReview without the studentId comparison
updateReview_anyStudent(user, rid, rating) ==
  IF rating # Undefined /\ rating \notin MinRating..MaxRating
    THEN Rejected(ErrorResponse("Rating must be between 1 and 5", 400), TRUE)
  ELSE IF reviews[rid] = NoReview
    THEN Rejected(ErrorResponse("Review not found", 404), TRUE)
  ELSE saveReview(rid,
                  IF rating # Undefined
                    THEN [reviews[rid] EXCEPT !.rating = rating]
                    ELSE reviews[rid],
                  200, "Review updated successfully")

\* updateReview that approves the Review it saves
updateReview_approving(user, rid, rating) ==
  IF rating # Undefined /\ rating \notin MinRating..MaxRating
    THEN Rejected(ErrorResponse("Rating must be between 1 and 5", 400), TRUE)
  ELSE IF reviews[rid] = NoReview
    THEN Rejected(ErrorResponse("Review not found", 404), TRUE)
  ELSE IF reviews[rid].studentId # user
    THEN Rejected(ErrorResponse("You can only update your own reviews", 403), TRUE)
  ELSE saveReview(rid,
                  IF rating # Undefined
                    THEN [reviews[rid] EXCEPT !.rating = rating, !.isApproved = TRUE]
                    ELSE [reviews[rid] EXCEPT !.isApproved = TRUE],
                  200, "Review updated successfully")

\* updateReview, after protect, studentOnly and validateReviewUpdate
updateReview(user, rid, rating) ==
  IF rating # Undefined /\ rating \notin MinRating..MaxRating
    THEN Rejected(ErrorResponse("Rating must be between 1 and 5", 400), TRUE)
  ELSE IF reviews[rid] = NoReview
    THEN Rejected(ErrorResponse("Review not found", 404), TRUE)
  ELSE IF reviews[rid].studentId # user
    THEN Rejected(ErrorResponse("You can only update your own reviews", 403), TRUE)
  ELSE saveReview(rid,
                  IF rating # Undefined
                    THEN [reviews[rid] EXCEPT !.rating = rating]
                    ELSE reviews[rid],
                  200, "Review updated successfully")

\* deleteReview, after protect and studentOnly: review.deleteOne() removes the
\* document and runs the 'deleteOne' document middleware
deleteReview(user, rid) ==
  IF reviews[rid] = NoReview
    THEN Rejected(ErrorResponse("Review not found", 404), TRUE)
  ELSE IF reviews[rid].studentId # user
    THEN Rejected(ErrorResponse("You can only delete your own reviews", 403), TRUE)
  ELSE LET revs == [reviews EXCEPT ![rid] = NoReview]
           noteId == reviews[rid].noteId
       IN [Reply(200, "Review deleted successfully", TRUE) EXCEPT
             !.reviews = revs,
             !.notes = runPostHooks("deleteOne", revs, notes, noteId),
             !.note = noteId, !.review = rid]

\* review.addHelpfulVote(isHelpful)
addHelpfulVote(doc, isHelpful) ==
  [doc EXCEPT !.totalVotes = @ + 1,
              !.helpfulVotes = IF isHelpful THEN @ + 1 ELSE @]

\* voteOnReview that refuses the Review's author
voteOnReview_notOwnReview(user, rid, helpful) ==
  IF helpful \notin {"true", "false"}
    THEN Rejected(ErrorResponse("Helpful vote must be true or false", 400), TRUE)
  ELSE IF reviews[rid] = NoReview
    THEN Rejected(ErrorResponse("Review not found", 404), TRUE)
  ELSE IF reviews[rid].studentId = user
    THEN Rejected(ErrorResponse("You cannot vote on your own review", 403), TRUE)
  ELSE saveReview(rid, addHelpfulVote(reviews[rid], helpful = "true"),
                  200, "Vote recorded successfully")

\* voteOnReview, after protect
voteOnReview(user, rid, helpful) ==
  IF helpful \notin {"true", "false"}
    THEN Rejected(ErrorResponse("Helpful vote must be true or false", 400), TRUE)
  ELSE IF reviews[rid] = NoReview
    THEN Rejected(ErrorResponse("Review not found", 404), TRUE)
  ELSE saveReview(rid, addHelpfulVote(reviews[rid], helpful = "true"),
                  200, "Vote recorded successfully")

\* reportReview, after protect
reportReview(user, rid) ==
  IF reviews[rid] = NoReview
    THEN Rejected(ErrorResponse("Review not found", 404), TRUE)
  ELSE saveReview(rid, [reviews[rid] EXCEPT !.isApproved = FALSE],
                  200, "Review reported successfully and sent for moderation")

\* getReviewStats (public): answers getStatistics(noteId)
getReviewStats(noteId) ==
  IF notes[noteId] = NoNote
    THEN Rejected(ErrorResponse("Note not found", 404), TRUE)
  ELSE [Reply(200, "stats", TRUE) EXCEPT !.note = noteId]

\* getMyReviews, after protect and studentOnly: only reads
getMyReviews(user) == Reply(200, "my reviews", TRUE)

\* -------------------------------------------------------- notes controller
FileInputs == {"none", "ok", "atlimit", "badext", "noext", "badmime", "toolarge"}
IsPublicInputs == {"true", "false", "undefined"}

\* the file part of a multipart request: the extension of its original name
\* (lower case, without the dot), its declared MIME type and its size in MB
FilePart(file) ==
  CASE file = "ok"       -> [ext |-> "pdf", mimetype |-> "application/pdf", size |-> 1]
    [] file = "atlimit"  -> [ext |-> "txt", mimetype |-> "text/markdown", size |-> 10]
    [] file = "badext"   -> [ext |-> "xyz", mimetype |-> "application/pdf", size |-> 1]
    [] file = "noext"    -> [ext |-> "", mimetype |-> "text/plain", size |-> 1]
    [] file = "badmime"  -> [ext |-> "pdf", mimetype |-> "text/plain", size |-> 1]
    [] file = "toolarge" -> [ext |-> "pdf", mimetype |-> "application/pdf", size |-> 11]

\* process.env.ALLOWED_FILE_TYPES, by default
allowedTypes == {"pdf", "doc", "docx", "txt", "jpg", "jpeg", "png", "ppt", "pptx"}

\* limits.fileSize, by default, in MB
MaxFileSize == 10

allowedMimeTypes(ext) ==
  CASE ext = "pdf" -> "application/pdf"
    [] ext = "txt" -> "text/plain"
    [] ext \in {"jpg", "jpeg"} -> "image/jpeg"
    [] ext = "png" -> "image/png"
    [] ext = "doc" -> "application/msword"
    [] ext = "docx" -> "application/vnd.openxmlformats-officedocument.wordprocessingml.document"
    [] ext = "ppt" -> "application/vnd.ms-powerpoint"
    [] ext = "pptx" -> "application/vnd.openxmlformats-officedocument.presentationml.presentation"

\* file.mimetype.startsWith('text/') and startsWith('image/')
TextMimeTypes == {"text/plain", "text/markdown"}
ImageMimeTypes == {"image/jpeg", "image/png"}

\* a fileFilter that accepts every file
fileFilter_acceptAll(part) == Pass(NoUser)

\* fileFilter: the extension allowlist, then the MIME type of the extension
fileFilter(part) ==
  IF part.ext \notin allowedTypes
    THEN Fail(ErrorResponse("Only pdf, doc, docx, txt, jpg, jpeg, png, ppt, pptx files are allowed", 400))
  ELSE IF /\ part.mimetype # allowedMimeTypes(part.ext)
          /\ ~(part.ext = "txt" /\ part.mimetype \in TextMimeTypes)
          /\ ~(part.ext \in {"jpg", "jpeg", "png"} /\ part.mimetype \in ImageMimeTypes)
    THEN Fail(ErrorResponse("Invalid file type", 400))
  ELSE Pass(NoUser)

\* upload.single(fieldName) inside uploadOptional: fileFilter when the file
\* part begins, the fileSize limit while it is read (a MulterError
\* LIMIT_FILE_SIZE, passed on as a 400); no file is not an error
uploadOptional(file) ==
  IF file = "none" THEN Pass(NoUser)
  ELSE LET f == fileFilter(FilePart(file))
       IN IF ~f.ok THEN f
          ELSE IF FilePart(file).size > MaxFileSize
            THEN Fail(ErrorResponse("File too large. Maximum size is 10MB", 400))
          ELSE Pass(NoUser)

\* a stored Note document (file metadata, counters and descriptive fields
\* are not tracked)
NewNote(user, isPublic) ==
  [uploadedBy |-> user, isPublic |-> isPublic, isActive |-> TRUE,
   averageRating |-> 0, ratingCount |-> 0]

\* getNotes, after validateNoteQuery and optionalAuth: only reads
getNotes(user) == [Reply(200, "notes", TRUE) EXCEPT !.user = user]

\* uploadNote, after protect, teacherOnly, uploadOptional and validateNote
uploadNote(user, file, valid, isPublic) ==
  IF ~valid
    THEN Rejected(ErrorResponse("Title must be between 3 and 100 characters", 400), TRUE)
  ELSE IF file = "none"
    THEN Rejected(ErrorResponse("Please upload a file", 400), TRUE)
  ELSE [Reply(201, "Note uploaded successfully", TRUE) EXCEPT
          !.notes = [notes EXCEPT ![nextNoteId] = NewNote(user, isPublic # "false")],
          !.nextNoteId = nextNoteId + 1,
          !.note = nextNoteId]

\* updateNote, after protect, teacherOnly, checkOwnership, uploadOptional and
\* validateNoteUpdate
updateNote(user, noteId, file, valid, isPublic) ==
  IF ~valid
    THEN Rejected(ErrorResponse("Title must be between 3 and 100 characters", 400), TRUE)
  ELSE [Reply(200, "Note updated successfully", TRUE) EXCEPT
          !.notes = IF isPublic = "undefined" THEN notes
                    ELSE [notes EXCEPT ![noteId].isPublic = (isPublic = "true")],
          !.note = noteId]

\* deleteNote without the Review.deleteMany
deleteNote_keepingReviews(user, noteId) ==
  [Reply(200, "Note deleted successfully", TRUE) EXCEPT
     !.notes = [notes EXCEPT ![noteId] = NoNote],
     !.note = noteId]

\* deleteNote, after protect, teacherOnly and checkOwnership:
\* Review.deleteMany({noteId}), then note.deleteOne()
deleteNote(user, noteId) ==
  [Reply(200, "Note deleted successfully", TRUE) EXCEPT
     !.reviews = [r \in ReviewIds |->
                    IF reviews[r] # NoReview /\ reviews[r].noteId = noteId
                      THEN NoReview ELSE reviews[r]],
     !.notes = [notes EXCEPT ![noteId] = NoNote],
     !.note = noteId]

\* getMyUploads, after protect and teacherOnly: only reads
getMyUploads(user) == Reply(200, "my uploads", TRUE)

\* where the file of a Note is kept: on Cloudinary, under an absolute local
\* path, or nowhere (memory storage leaves filePath empty)
FileStores == {"cloudinary", "local", "missing"}

\* downloadNote (public): incrementDownload, then a redirect to the
\* Cloudinary URL, or the local file, or 404 (downloadCount is not tracked)
downloadNote(noteId, store) ==
  IF notes[noteId] = NoNote
    THEN Rejected(ErrorResponse("Note not found", 404), TRUE)
  ELSE IF ~notes[noteId].isActive \/ ~notes[noteId].isPublic
    THEN Rejected(ErrorResponse("Note not available", 404), TRUE)
  ELSE IF store = "cloudinary"
    THEN [Reply(302, "redirect", TRUE) EXCEPT !.note = noteId]
  ELSE IF store = "local"
    THEN [Reply(200, "file", TRUE) EXCEPT !.note = noteId]
  ELSE Rejected(ErrorResponse("File not found", 404), TRUE)

\* --------------------------------------------- download history controller
\* createDownloadHistory: DownloadHistory.create validates the required
\* snapshot fields (ValidationError)
createDownloadHistory(user, noteId, valid) ==
  IF ~valid
    THEN Rejected([name |-> "ValidationError", code |-> "",
                   message |-> "Path fileName is required.", statusCode |-> 0], TRUE)
  ELSE [Reply(201, "created", TRUE) EXCEPT
          !.downloads = [downloads EXCEPT ![nextDownloadId] =
                           [noteId |-> noteId, studentId |-> user]],
          !.nextDownloadId = nextDownloadId + 1]

\* deleteDownloadHistory
deleteDownloadHistory(user, id) ==
  IF downloads[id] = NoDownload
    THEN Rejected(ErrorResponse("Download history record not found", 404), TRUE)
  ELSE IF downloads[id].studentId # user
    THEN Rejected(ErrorResponse("Access denied. You can only delete your own download history.", 403),
                  TRUE)
  ELSE [Reply(200, "Download history record deleted successfully", TRUE) EXCEPT
          !.downloads = [downloads EXCEPT ![id] = NoDownload]]

\* getDownloadHistory and getDownloadStats only read
getDownloadHistory(user) == Reply(200, "history", TRUE)
getDownloadStats(user) == Reply(200, "stats", TRUE)

\* --------------------------------------------------------- auth controller
\* user.matchPassword(enteredPassword): bcrypt.compare
matchPassword(user, enteredPassword) ==
  users[user].password = bcryptHash(enteredPassword)

\* login (lastLogin is not tracked)
login(email, password) ==
  LET found == {u \in DOMAIN users : users[u].email = email}
  IN IF found = {}
       THEN Rejected(ErrorResponse("Invalid credentials", 401), TRUE)
     ELSE LET user == CHOOSE u \in found : TRUE
          IN IF ~users[user].isActive
               THEN Rejected(ErrorResponse("Account has been deactivated. Please contact support.",
                                           401), TRUE)
             ELSE IF ~matchPassword(user, password)
               THEN Rejected(ErrorResponse("Invalid credentials", 401), TRUE)
             ELSE Reply(200, "Login successful", TRUE)

\* getMe
getMe(user) == Reply(200, "me", TRUE)

\* logout: the server keeps no session
logout(user) == Reply(200, "Logged out successfully", TRUE)

\* ------------------------------------------- auth controller: the account
NoEmail == ""
EmailInputs == {EmailOf["t1"], EmailOf["s1"], "T1", UnknownEmail, NoEmail}
\* String(email).toLowerCase()
toLowerCase(email) == IF email = "T1" THEN "t1" ELSE email

NewPasswords == {"secret2", "abc"}
\* the passwords shorter than six characters
ShortPasswords == {"abc"}
\* 1000 * 60 * 15 milliseconds, in five-minute steps
ResetTtl == 3
ResetTokenInputs == 1..(MaxResetTokens + 1)

ProfileBodies ==
  {[name |-> n, role |-> r, valid |-> v] :
     n \in {"renamed", "undefined"}, r \in {"teacher", "student", "undefined"},
     v \in BOOLEAN}

\* updateProfile with role among the fields it copies from the body
updateProfile_anyField(user, body) ==
  IF ~body.valid
    THEN Rejected(ErrorResponse("Name must be between 2 and 50 characters", 400), TRUE)
  ELSE [Reply(200, "Profile updated successfully", TRUE) EXCEPT
          !.users = [users EXCEPT
             ![user].name = IF body.name # "undefined" THEN body.name ELSE @,
             ![user].role = IF body.role # "undefined" THEN body.role ELSE @]]

\* updateProfile, after protect and validateProfileUpdate: name, bio and the
\* fields of the user's role are copied from the body, nothing else (of these
\* only name is tracked)
updateProfile(user, body) ==
  IF ~body.valid
    THEN Rejected(ErrorResponse("Name must be between 2 and 50 characters", 400), TRUE)
  ELSE [Reply(200, "Profile updated successfully", TRUE) EXCEPT
          !.users = [users EXCEPT
             ![user].name = IF body.name # "undefined" THEN body.name ELSE @]]

\* changePassword, after protect and validatePasswordChange
changePassword(user, currentPassword, newPassword) ==
  IF newPassword \in ShortPasswords
    THEN Rejected(ErrorResponse("New password must be at least 6 characters long", 400), TRUE)
  ELSE IF ~matchPassword(user, currentPassword)
    THEN Rejected(ErrorResponse("Current password is incorrect", 400), TRUE)
  ELSE [Reply(200, "Password changed successfully", TRUE) EXCEPT
          !.users = [users EXCEPT ![user].password = bcryptHash(newPassword)]]

\* what forgotPassword leaves behind: the response, the token it generated
\* (0: none) and the token of the resetUrl in the response body (0: no data)
ForgotReply(r, resetToken, data) == r @@ [resetToken |-> resetToken, data |-> data]

\* forgotPassword; crypto.randomBytes(32) gives a token never seen before;
\* smtp tells whether transporter.sendMail succeeds
forgotPassword(email, smtp) ==
  LET found == {u \in DOMAIN users : users[u].email = toLowerCase(email)}
      resetToken == resetLog.generated + 1
  IN IF email = NoEmail
       THEN ForgotReply(Rejected(ErrorResponse("Email is required", 400), TRUE), 0, 0)
     ELSE IF found = {}
       THEN ForgotReply(Reply(200, "If an account exists, an email has been sent", TRUE), 0, 0)
     ELSE LET user == CHOOSE u \in found : TRUE
              saved == [users EXCEPT
                          ![user].passwordResetToken = sha256(resetToken),
                          ![user].passwordResetExpire = now + ResetTtl]
          IN IF smtp
               THEN ForgotReply([Reply(200, "Reset link sent to email", TRUE)
                                   EXCEPT !.users = saved], resetToken, 0)
             ELSE ForgotReply([Reply(200, "Email sending failed in dev, use resetUrl", TRUE)
                                 EXCEPT !.users = saved], resetToken, resetToken)

\* resetPassword that leaves the token and its expiry on the account
resetPassword_keepingToken(token, newPassword) ==
  LET found == {u \in DOMAIN users :
                  /\ users[u].passwordResetToken = sha256(token)
                  /\ users[u].passwordResetExpire > now}
  IN IF newPassword \in ShortPasswords
       THEN Rejected(ErrorResponse("New password must be at least 6 characters long", 400), TRUE)
     ELSE IF found = {}
       THEN Rejected(ErrorResponse("Reset token is invalid or has expired", 400), TRUE)
     ELSE LET user == CHOOSE u \in found : TRUE
          IN [Reply(200, "Password has been reset successfully", TRUE) EXCEPT
                !.users = [users EXCEPT ![user].password = bcryptHash(newPassword)]]

\* resetPassword
resetPassword(token, newPassword) ==
  LET found == {u \in DOMAIN users :
                  /\ users[u].passwordResetToken = sha256(token)
                  /\ users[u].passwordResetExpire > now}
  IN IF newPassword \in ShortPasswords
       THEN Rejected(ErrorResponse("New password must be at least 6 characters long", 400), TRUE)
     ELSE IF found = {}
       THEN Rejected(ErrorResponse("Reset token is invalid or has expired", 400), TRUE)
     ELSE LET user == CHOOSE u \in found : TRUE
          IN [Reply(200, "Password has been reset successfully", TRUE) EXCEPT
                !.users = [users EXCEPT
                   ![user].password = bcryptHash(newPassword),
                   ![user].passwordResetToken = NoResetToken,
                   ![user].passwordResetExpire = Undefined]]

\* ----------------------------------------------------------------- routes
\* router.post('/', protect, studentOnly, validateReview, createReview)
POST_reviews(token, noteId, rating) ==
  LET p == protect(token)
  IN IF ~p.ok THEN Rejected(p.error, FALSE)
     ELSE LET s == studentOnly(p.user)
          IN IF ~s.ok THEN Rejected(s.error, FALSE)
             ELSE createReview(p.user, noteId, rating)

\* router.put('/:id', protect, studentOnly, validateReviewUpdate, updateReview)
PUT_reviews_id(token, rid, rating) ==
  LET p == protect(token)
  IN IF ~p.ok THEN Rejected(p.error, FALSE)
     ELSE LET s == studentOnly(p.user)
          IN IF ~s.ok THEN Rejected(s.error, FALSE)
             ELSE updateReview(p.user, rid, rating)

\* router.delete('/:id', protect, studentOnly, deleteReview)
DELETE_reviews_id(token, rid) ==
  LET p == protect(token)
  IN IF ~p.ok THEN Rejected(p.error, FALSE)
     ELSE LET s == studentOnly(p.user)
          IN IF ~s.ok THEN Rejected(s.error, FALSE)
             ELSE deleteReview(p.user, rid)

\* router.post('/:id/vote', protect, voteOnReview)
POST_reviews_id_vote(token, rid, helpful) ==
  LET p == protect(token)
  IN IF ~p.ok THEN Rejected(p.error, FALSE)
     ELSE voteOnReview(p.user, rid, helpful)

\* router.post('/:id/report', protect, reportReview)
POST_reviews_id_report(token, rid) ==
  LET p == protect(token)
  IN IF ~p.ok THEN Rejected(p.error, FALSE)
     ELSE reportReview(p.user, rid)

\* router.get('/stats/:noteId', getReviewStats)
GET_reviews_stats(noteId) == getReviewStats(noteId)

\* router.get('/', validateNoteQuery, optionalAuth, getNotes)
GET_notes(token) ==
  LET o == optionalAuth(token)
  IN IF ~o.ok THEN Rejected(o.error, FALSE)
     ELSE getNotes(o.user)

\* router.get('/:id/download', downloadNote): no middleware reads the token
GET_notes_id_download(token, noteId, store) == downloadNote(noteId, store)

\* router.post('/', protect, teacherOnly, uploadOptional('file'), validateNote,
\*             uploadNote)
POST_notes(token, file, valid, isPublic) ==
  LET p == protect(token)
  IN IF ~p.ok THEN Rejected(p.error, FALSE)
     ELSE LET t == teacherOnly(p.user)
          IN IF ~t.ok THEN Rejected(t.error, FALSE)
             ELSE LET f == uploadOptional(file)
                  IN IF ~f.ok THEN Rejected(f.error, FALSE)
                     ELSE uploadNote(p.user, file, valid, isPublic)

\* router.put('/:id', protect, teacherOnly, checkOwnership(Note),
\*            uploadOptional('file'), validateNoteUpdate, updateNote)
PUT_notes_id(token, noteId, file, valid, isPublic) ==
  LET p == protect(token)
  IN IF ~p.ok THEN Rejected(p.error, FALSE)
     ELSE LET t == teacherOnly(p.user)
          IN IF ~t.ok THEN Rejected(t.error, FALSE)
             ELSE LET o == checkOwnership(p.user, noteId)
                  IN IF ~o.ok THEN Rejected(o.error, FALSE)
                     ELSE LET f == uploadOptional(file)
                          IN IF ~f.ok THEN Rejected(f.error, FALSE)
                             ELSE updateNote(p.user, noteId, file, valid, isPublic)

\* router.delete('/:id', protect, teacherOnly, checkOwnership(Note), deleteNote)
DELETE_notes_id(token, noteId) ==
  LET p == protect(token)
  IN IF ~p.ok THEN Rejected(p.error, FALSE)
     ELSE LET t == teacherOnly(p.user)
          IN IF ~t.ok THEN Rejected(t.error, FALSE)
             ELSE LET o == checkOwnership(p.user, noteId)
                  IN IF ~o.ok THEN Rejected(o.error, FALSE)
                     ELSE deleteNote(p.user, noteId)

\* router.post('/login', validateLogin, login)
POST_auth_login(email, password) == login(email, password)

\* router.get('/me', protect, getMe)
GET_auth_me(token) ==
  LET p == protect(token)
  IN IF ~p.ok THEN Rejected(p.error, FALSE)
     ELSE getMe(p.user)

\* router.get('/my-reviews', protect, studentOnly, getMyReviews)
GET_reviews_my_reviews(token) ==
  LET p == protect(token)
  IN IF ~p.ok THEN Rejected(p.error, FALSE)
     ELSE LET s == studentOnly(p.user)
          IN IF ~s.ok THEN Rejected(s.error, FALSE)
             ELSE getMyReviews(p.user)

\* router.get('/my-uploads', protect, teacherOnly, getMyUploads)
GET_notes_my_uploads(token) ==
  LET p == protect(token)
  IN IF ~p.ok THEN Rejected(p.error, FALSE)
     ELSE LET t == teacherOnly(p.user)
          IN IF ~t.ok THEN Rejected(t.error, FALSE)
             ELSE getMyUploads(p.user)

\* router.post('/logout', protect, logout)
POST_auth_logout(token) ==
  LET p == protect(token)
  IN IF ~p.ok THEN Rejected(p.error, FALSE)
     ELSE logout(p.user)

\* router.put('/profile', protect, validateProfileUpdate, updateProfile)
PUT_auth_profile(token, body) ==
  LET p == protect(token)
  IN IF ~p.ok THEN Rejected(p.error, FALSE)
     ELSE updateProfile(p.user, body)

\* router.put('/password', protect, validatePasswordChange, changePassword)
PUT_auth_password(token, currentPassword, newPassword) ==
  LET p == protect(token)
  IN IF ~p.ok THEN Rejected(p.error, FALSE)
     ELSE changePassword(p.user, currentPassword, newPassword)

\* the download-history router: router.use(protect); router.use(studentOnly);
\* then GET /, GET /stats, POST / and DELETE /:id
DownloadHistoryOps == {"getDownloadHistory", "getDownloadStats",
                       "createDownloadHistory", "deleteDownloadHistory"}

downloadHistoryRouter(op, token, noteId, id, valid) ==
  LET p == protect(token)
  IN IF ~p.ok THEN Rejected(p.error, FALSE)
     ELSE LET s == studentOnly(p.user)
          IN IF ~s.ok THEN Rejected(s.error, FALSE)
             ELSE IF op = "getDownloadHistory" THEN getDownloadHistory(p.user)
             ELSE IF op = "getDownloadStats" THEN getDownloadStats(p.user)
             ELSE IF op = "createDownloadHistory"
               THEN createDownloadHistory(p.user, noteId, valid)
             ELSE deleteDownloadHistory(p.user, id)

\* ----------------------------------------------------------------- server
\* the routers the application mounts with app.use(path, router)
MountedRouters == {"/api/auth", "/api/notes", "/api/reviews"}

\* notFound: a path under no mounted router
notFound == Rejected(ErrorResponse("Not found", 404), FALSE)

\* the application: a request under a mounted path goes through its router,
\* any other request reaches notFound
app(path, routed) == IF path \in MountedRouters THEN routed ELSE notFound

\* ----------------------------------------------------- analytics controller
Days == 1..MaxDays
Today == MaxDays          \* new Date(): no download is later than now

Max(a, b) == IF a >= b THEN a ELSE b

\* Object.keys(dailyDownloads).sort().reverse(): the days with a download,
\* latest first
RECURSIVE sortedDays(_)
sortedDays(D) ==
  IF D = {} THEN <<>>
  ELSE LET latest == CHOOSE d \in D : \A e \in D : e <= d
       IN <<latest>> \o sortedDays(D \ {latest})

\* nextDay: new Date(day) is midnight UTC, setDate(getDate() + 1) moves the
\* local date and keeps the local time of day, toISOString() is UTC again.
\* On the day the server's zone switches to summer time the local day is an
\* hour short and the result is the same UTC date; springForward is that day
\* (0 when the zone has none, as with TZ=UTC).
nextDayStr(day, springForward) == IF day = springForward THEN day ELSE day + 1

\* the for loop over sortedDays, from index i with the three counters
RECURSIVE streakLoop(_, _, _, _, _, _, _)
streakLoop(sd, i, today, springForward, currentStreak, maxStreak, tempStreak) ==
  IF i > Len(sd)
    THEN [currentStreak |-> currentStreak, maxStreak |-> Max(maxStreak, tempStreak)]
  ELSE IF i = 1 /\ sd[i] = today
    THEN streakLoop(sd, i + 1, today, springForward, 1, maxStreak, 1)
  ELSE IF i > 1 /\ sd[i - 1] = nextDayStr(sd[i], springForward)
    THEN streakLoop(sd, i + 1, today, springForward, tempStreak + 1, maxStreak, tempStreak + 1)
  ELSE streakLoop(sd, i + 1, today, springForward, currentStreak,
                  Max(maxStreak, tempStreak), 1)

\* getStudentProgress: the learning streak of a student whose downloads fall
\* on the days D
getStudentProgress(D, today, springForward) ==
  streakLoop(sortedDays(D), 1, today, springForward, 0, 0, 0)

\* no progress request is modelled
NoProgress == [absent |-> TRUE]

\* ------------------------------------------------------- requests in flight
Slots == {1, 2}
Idle == [pc |-> "idle"]

\* ------------------------------------------------------------ the machine
\* the User collection with the accounts of A active
UsersWith(A) ==
  [u \in UserIds |->
     [role |-> IF u \in Teachers THEN "teacher" ELSE "student",
      isActive |-> u \in A,
      email |-> EmailOf[u],
      name |-> "name",
      password |-> bcryptHash("pw"),
      passwordResetToken |-> NoResetToken,
      passwordResetExpire |-> Undefined]]

\* the accounts that may be deactivated at the start (no route changes isActive)
MayBeInactive == {"t2", "s2"}

Init ==
  /\ \E I \in SUBSET MayBeInactive : users = UsersWith(UserIds \ I)
  /\ notes = [n \in NoteIds |-> NoNote]
  /\ reviews = [r \in ReviewIds |-> NoReview]
  /\ downloads = [d \in DownloadIds |-> NoDownload]
  /\ nextNoteId = 1
  /\ nextReviewId = 1
  /\ nextDownloadId = 1
  /\ last = [op |-> "none", note |-> 0, review |-> 0]
  /\ inflight = [p \in Slots |-> Idle]
  /\ accepted = 0
  /\ progress = NoProgress
  /\ now = 0
  /\ resetLog = NoResetLog
  /\ completed = NoneCompleted

\* the requests that write to a collection when they succeed
WriteOps == {"createReview", "updateReview", "deleteReview", "voteOnReview",
             "reportReview", "uploadNote", "updateNote", "deleteNote",
             "createDownloadHistory", "deleteDownloadHistory"}

\* The request is answered: the collections are as the request left them.
\* last remembers the latest write request that succeeded, with the Note and
\* the Review it was about.
Respond(op, r) ==
  /\ notes' = r.notes
  /\ reviews' = r.reviews
  /\ downloads' = r.downloads
  /\ nextNoteId' = r.nextNoteId
  /\ nextReviewId' = r.nextReviewId
  /\ nextDownloadId' = r.nextDownloadId
  /\ last' = IF r.status \in {200, 201} /\ op \in WriteOps
               THEN [op |-> op, note |-> r.note, review |-> r.review]
               ELSE last
  /\ UNCHANGED <<users, inflight, accepted, progress, now, resetLog, completed>>

CreateReview ==
  \E token \in Tokens, noteId \in NoteIds, rating \in RatingInputs :
    /\ nextReviewId \in ReviewIds
    /\ Respond("createReview", app("/api/reviews", POST_reviews(token, noteId, rating)))

UpdateReview ==
  \E token \in Tokens, rid \in ReviewIds, rating \in RatingInputs \cup {Undefined} :
    Respond("updateReview", app("/api/reviews", PUT_reviews_id(token, rid, rating)))

DeleteReview ==
  \E token \in Tokens, rid \in ReviewIds :
    Respond("deleteReview", app("/api/reviews", DELETE_reviews_id(token, rid)))

VoteOnReview ==
  \E token \in Tokens, rid \in ReviewIds, helpful \in HelpfulInputs :
    /\ reviews[rid] # NoReview => reviews[rid].totalVotes < MaxVotes
    /\ Respond("voteOnReview", app("/api/reviews", POST_reviews_id_vote(token, rid, helpful)))

ReportReview ==
  \E token \in Tokens, rid \in ReviewIds :
    Respond("reportReview", app("/api/reviews", POST_reviews_id_report(token, rid)))

GetReviewStats ==
  \E noteId \in NoteIds :
    Respond("getReviewStats", app("/api/reviews", GET_reviews_stats(noteId)))

\* the bodies of the note requests that are tried
NoteBodies ==
  {[file |-> "ok", valid |-> TRUE, isPublic |-> "true"],
   [file |-> "ok", valid |-> TRUE, isPublic |-> "false"],
   [file |-> "ok", valid |-> FALSE, isPublic |-> "undefined"],
   [file |-> "none", valid |-> TRUE, isPublic |-> "undefined"]}
  \cup {[file |-> f, valid |-> TRUE, isPublic |-> "undefined"] :
          f \in FileInputs \ {"ok", "none"}}

GetNotes ==
  \E token \in Tokens :
    Respond("getNotes", app("/api/notes", GET_notes(token)))

DownloadNote ==
  \E token \in Tokens, noteId \in NoteIds, store \in FileStores :
    Respond("downloadNote", app("/api/notes", GET_notes_id_download(token, noteId, store)))

UploadNote ==
  \E token \in Tokens, b \in NoteBodies :
    /\ nextNoteId \in NoteIds
    /\ Respond("uploadNote", app("/api/notes", POST_notes(token, b.file, b.valid, b.isPublic)))

UpdateNote ==
  \E token \in Tokens, noteId \in NoteIds, b \in NoteBodies :
    Respond("updateNote", app("/api/notes", PUT_notes_id(token, noteId, b.file, b.valid, b.isPublic)))

DeleteNote ==
  \E token \in Tokens, noteId \in NoteIds :
    Respond("deleteNote", app("/api/notes", DELETE_notes_id(token, noteId)))

Login ==
  \E email \in {EmailOf[u] : u \in UserIds} \cup {UnknownEmail}, password \in Passwords :
    Respond("login", app("/api/auth", POST_auth_login(email, password)))

GetMe ==
  \E token \in Tokens :
    Respond("getMe", app("/api/auth", GET_auth_me(token)))

GetMyReviews ==
  \E token \in Tokens :
    Respond("getMyReviews", app("/api/reviews", GET_reviews_my_reviews(token)))

GetMyUploads ==
  \E token \in Tokens :
    Respond("getMyUploads", app("/api/notes", GET_notes_my_uploads(token)))

Logout ==
  \E token \in Tokens :
    Respond("logout", app("/api/auth", POST_auth_logout(token)))

DownloadHistoryRequest ==
  \E op \in DownloadHistoryOps, token \in Tokens, noteId \in NoteIds,
     id \in DownloadIds, valid \in BOOLEAN :
    /\ nextDownloadId \in DownloadIds
    /\ Respond(op, app("/api/download-history",
                   downloadHistoryRouter(op, token, noteId, id, valid)))

Next ==
  \/ CreateReview
  \/ UpdateReview
  \/ DeleteReview
  \/ VoteOnReview
  \/ ReportReview
  \/ GetReviewStats
  \/ GetNotes
  \/ DownloadNote
  \/ UploadNote
  \/ UpdateNote
  \/ DeleteNote
  \/ Login
  \/ GetMe
  \/ GetMyReviews
  \/ GetMyUploads
  \/ Logout
  \/ DownloadHistoryRequest

Spec == Init /\ [][Next]_vars

\* ================================================================= claims
ReviewWrites == {"createReview", "updateReview", "deleteReview", "reportReview"}

\* the Note the latest successful write was about still exists
LastNoteExists == last.note \in NoteIds /\ notes[last.note] # NoNote

\* C1: right after a Review create, update, delete or report request that
\* affects Note N completes, N.ratingCount is the number of active and
\* approved Reviews of N.
C1_RatingCountAfterReviewWrite ==
  (last.op \in ReviewWrites /\ LastNoteExists)
    => notes[last.note].ratingCount = Cardinality(Qualifying(reviews, last.note))

\* C2: after the owning student deleted the only qualifying Review of a Note,
\* the Note's stored averageRating and ratingCount are both 0.
C2_AggregateResetAfterLastDelete ==
  (last.op = "deleteReview" /\ LastNoteExists /\ Qualifying(reviews, last.note) = {})
    => /\ notes[last.note].averageRating = 0
       /\ notes[last.note].ratingCount = 0

\* the Review collection without Review rid
Without(revs, rid) == [r \in ReviewIds |-> IF r = rid THEN NoReview ELSE revs[r]]

\* C3: after a report request on a Review completes, the Review has
\* isApproved = false, getStatistics for its Note is what it is without the
\* Review, and so are the Note's stored averageRating and ratingCount; every
\* Review that is not approved is left out of getStatistics in every state.
C3_ReportedReviewExcluded ==
  /\ \A r \in ReviewIds :
       (reviews[r] # NoReview /\ ~reviews[r].isApproved)
         => getStatistics(reviews, reviews[r].noteId)
              = getStatistics(Without(reviews, r), reviews[r].noteId)
  /\ last.op = "reportReview"
       => /\ reviews[last.review] # NoReview
          /\ ~reviews[last.review].isApproved
          /\ reviews[last.review].noteId = last.note
          /\ LastNoteExists
               => LET others == getStatistics(Without(reviews, last.review), last.note)
                  IN /\ notes[last.note].averageRating = others.averageRating
                     /\ notes[last.note].ratingCount = others.totalReviews

\* C3 witness: a Review that counted has been reported while another Review of
\* the same Note still counts
C3_Witness ==
  /\ last.op = "reportReview"
  /\ LastNoteExists
  /\ Qualifying(reviews, last.note) # {}

\* C4: after a Review create, update, vote, report or delete request
\* completes, the Note's stored averageRating is the averageRating that
\* getStatistics returns for the Note.
C4_StoredAverageIsStatistics ==
  (last.op \in ReviewWrites \cup {"voteOnReview"} /\ LastNoteExists)
    => notes[last.note].averageRating = getStatistics(reviews, last.note).averageRating

\* the request left every collection as it was
Untouched(r) ==
  /\ r.notes = notes
  /\ r.reviews = reviews
  /\ r.downloads = downloads

\* the answers of the mounted routes that run protect, to every request that
\* carries token
ProtectedAnswers(token) ==
  {app("/api/reviews", POST_reviews(token, n, rating)) :
     n \in NoteIds, rating \in RatingInputs}
  \cup {app("/api/reviews", PUT_reviews_id(token, r, rating)) :
          r \in ReviewIds, rating \in RatingInputs \cup {Undefined}}
  \cup {app("/api/reviews", DELETE_reviews_id(token, r)) : r \in ReviewIds}
  \cup {app("/api/reviews", POST_reviews_id_vote(token, r, h)) :
          r \in ReviewIds, h \in HelpfulInputs}
  \cup {app("/api/reviews", POST_reviews_id_report(token, r)) : r \in ReviewIds}
  \cup {app("/api/notes", POST_notes(token, b.file, b.valid, b.isPublic)) :
          b \in NoteBodies}
  \cup {app("/api/notes", PUT_notes_id(token, n, b.file, b.valid, b.isPublic)) :
          n \in NoteIds, b \in NoteBodies}
  \cup {app("/api/notes", DELETE_notes_id(token, n)) : n \in NoteIds}
  \cup {app("/api/reviews", GET_reviews_my_reviews(token)),
        app("/api/notes", GET_notes_my_uploads(token)),
        app("/api/auth", GET_auth_me(token)),
        app("/api/auth", POST_auth_logout(token))}

\* C5: a (Note, Student) pair has at most one Review, and a createReview by a
\* student who already reviewed the Note is answered 400 and changes neither
\* the Reviews nor the Notes.
C5_OneReviewPerNoteAndStudent ==
  /\ \A n \in NoteIds, s \in Students : Cardinality(ReviewsOf(reviews, n, s)) <= 1
  /\ \A s \in Students, n \in NoteIds, rating \in RatingInputs :
       (users[s].isActive /\ ReviewsOf(reviews, n, s) # {})
         => LET r == app("/api/reviews", POST_reviews(ValidToken(s), n, rating))
            IN r.status = 400 /\ Untouched(r)

\* an active student has reviewed a public Note and there is room for
\* another Review
C5_Witness ==
  \E s \in Students, n \in NoteIds :
    /\ users[s].isActive
    /\ ReviewsOf(reviews, n, s) # {}
    /\ notes[n] # NoNote /\ notes[n].isPublic
    /\ nextReviewId \in ReviewIds
    /\ last.op = "createReview"

\* C6: a request to a route that requires authentication, with a missing,
\* malformed, expired or wrongly signed token, is answered 401 and the route
\* handler is not run.
C6_BadTokenIs401 ==
  \A token \in Tokens :
    token.kind # "valid"
      => \A r \in ProtectedAnswers(token) : r.status = 401 /\ ~r.handler

\* C7: a teacher who did not upload a Note cannot update or delete it (403,
\* the Note and the Reviews unchanged), and a student cannot create, update
\* or delete any Note (403).
C7_NoteWritesNeedTheUploader ==
  /\ \A t \in Teachers, n \in NoteIds, b \in NoteBodies :
       (users[t].isActive /\ notes[n] # NoNote /\ notes[n].uploadedBy # t)
         => \A r \in {app("/api/notes", PUT_notes_id(ValidToken(t), n, b.file, b.valid, b.isPublic)),
                      app("/api/notes", DELETE_notes_id(ValidToken(t), n))} :
              r.status = 403 /\ Untouched(r)
  /\ \A s \in Students, n \in NoteIds, b \in NoteBodies :
       users[s].isActive
         => \A r \in {app("/api/notes", POST_notes(ValidToken(s), b.file, b.valid, b.isPublic)),
                      app("/api/notes", PUT_notes_id(ValidToken(s), n, b.file, b.valid, b.isPublic)),
                      app("/api/notes", DELETE_notes_id(ValidToken(s), n))} :
              r.status = 403 /\ Untouched(r)

\* a reviewed Note, an active teacher who did not upload it and an active
\* student
C7_Witness ==
  \E t \in Teachers, s \in Students, n \in NoteIds, r \in ReviewIds :
    /\ users[t].isActive /\ users[s].isActive
    /\ notes[n] # NoNote /\ notes[n].uploadedBy # t
    /\ reviews[r] # NoReview /\ reviews[r].noteId = n

\* C8: a Review update or delete succeeds only for the student who wrote the
\* Review; the same request by any other student is answered 403 and leaves
\* the Review and the Note aggregate unchanged.
C8_ReviewWritesNeedTheAuthor ==
  /\ \A token \in Tokens, rid \in ReviewIds, rating \in RatingInputs \cup {Undefined} :
       \A r \in {app("/api/reviews", PUT_reviews_id(token, rid, rating)),
                 app("/api/reviews", DELETE_reviews_id(token, rid))} :
         IF r.status = 200
           THEN /\ token.kind = "valid"
                /\ reviews[rid] # NoReview
                /\ reviews[rid].studentId = token.id
           ELSE Untouched(r)
  /\ \A s \in Students, rid \in ReviewIds,
        rating \in (RatingInputs \cap (MinRating..MaxRating)) \cup {Undefined} :
       (users[s].isActive /\ reviews[rid] # NoReview /\ reviews[rid].studentId # s)
         => \A r \in {app("/api/reviews", PUT_reviews_id(ValidToken(s), rid, rating)),
                      app("/api/reviews", DELETE_reviews_id(ValidToken(s), rid))} :
              r.status = 403 /\ Untouched(r)

\* a Review on an existing Note and an active student who did not write it
C8_Witness ==
  \E s \in Students, rid \in ReviewIds :
    /\ users[s].isActive
    /\ reviews[rid] # NoReview /\ reviews[rid].studentId # s
    /\ notes[reviews[rid].noteId] # NoNote

\* the answers to the student-only requests of the Review routes
StudentOnlyReviewAnswers(token) ==
  {app("/api/reviews", POST_reviews(token, n, rating)) :
     n \in NoteIds, rating \in RatingInputs}
  \cup {app("/api/reviews", PUT_reviews_id(token, r, rating)) :
          r \in ReviewIds, rating \in RatingInputs \cup {Undefined}}
  \cup {app("/api/reviews", DELETE_reviews_id(token, r)) : r \in ReviewIds}
  \cup {app("/api/reviews", GET_reviews_my_reviews(token))}

\* the answers to the download history requests
DownloadHistoryAnswers(token) ==
  {app("/api/download-history", downloadHistoryRouter(op, token, n, d, valid)) :
     op \in DownloadHistoryOps, n \in NoteIds, d \in DownloadIds, valid \in BOOLEAN}

\* C9: a student-only request (create, update, delete a Review; list,
\* statistics, create, delete download history) by an authenticated teacher is
\* answered 403 and changes no record.
C9_StudentOnlyIs403ForTeachers ==
  \A t \in Teachers :
    users[t].isActive
      => \A r \in StudentOnlyReviewAnswers(ValidToken(t))
                    \cup DownloadHistoryAnswers(ValidToken(t)) :
           r.status = 403 /\ Untouched(r)

\* C10: for a user with isActive = false, every request with a valid token to
\* a route that requires authentication is answered 401 by protect, and a
\* login with the correct credentials is rejected.
C10_DeactivatedAccountIsShutOut ==
  \A u \in UserIds :
    ~users[u].isActive
      => /\ \A r \in ProtectedAnswers(ValidToken(u)) :
              r.status = 401 /\ ~r.handler /\ Untouched(r)
         /\ \A pw \in Passwords :
              matchPassword(u, pw)
                => LET r == app("/api/auth", POST_auth_login(EmailOf[u], pw))
                   IN r.status = 401 /\ Untouched(r)

\* a deactivated account whose password is known, and a Note and a Review its
\* requests could reach
C10_Witness ==
  \E u \in UserIds, n \in NoteIds, r \in ReviewIds :
    /\ ~users[u].isActive
    /\ \E pw \in Passwords : matchPassword(u, pw)
    /\ notes[n] # NoNote
    /\ reviews[r] # NoReview

\* the user a token stands for when it verifies and its account is active
IdentityOf(token) ==
  IF token.kind = "valid" /\ token.id \in UserIds /\ users[token.id].isActive
    THEN token.id
    ELSE NoUser

\* C11: GET /api/notes never rejects a request for its token: whatever the
\* token, the request reaches getNotes; req.user is the token's user when the
\* token verifies and the account exists and is active, and is not set
\* otherwise.
C11_OptionalAuthNeverRejects ==
  \A token \in Tokens :
    LET r == app("/api/notes", GET_notes(token))
    IN /\ r.status = 200
       /\ r.handler
       /\ r.user = IdentityOf(token)
       /\ Untouched(r)

\* a deactivated account and an active one, with Notes to list
C11_Witness ==
  /\ \E u \in UserIds : ~users[u].isActive
  /\ \E u \in UserIds : users[u].isActive
  /\ \E n \in NoteIds : notes[n] # NoNote

\* C12: every active user, teacher or student, the author included, can vote
\* on and report every existing Review: the vote is counted and the report
\* clears isApproved, both answered 200.
C12_VoteAndReportNeedOnlyAuthentication ==
  \A u \in UserIds, rid \in ReviewIds :
    (users[u].isActive /\ reviews[rid] # NoReview)
      => /\ LET r == app("/api/reviews", POST_reviews_id_report(ValidToken(u), rid))
            IN /\ r.status = 200
               /\ r.reviews[rid] = [reviews[rid] EXCEPT !.isApproved = FALSE]
         /\ \A h \in {"true", "false"} :
              LET r == app("/api/reviews", POST_reviews_id_vote(ValidToken(u), rid, h))
              IN /\ r.status = 200
                 /\ r.reviews[rid].totalVotes = reviews[rid].totalVotes + 1
                 /\ r.reviews[rid].helpfulVotes =
                      reviews[rid].helpfulVotes + (IF h = "true" THEN 1 ELSE 0)

\* a Review whose author is active, an active teacher and another active
\* student
C12_Witness ==
  \E rid \in ReviewIds, t \in Teachers, s \in Students :
    /\ reviews[rid] # NoReview
    /\ users[reviews[rid].studentId].isActive
    /\ users[t].isActive
    /\ users[s].isActive /\ s # reviews[rid].studentId

\* C13: a deleteNote request of the uploader removes the Note and every Review
\* of it; no Review is ever left with the noteId of a Note that is gone.
C13_DeleteNoteCascades ==
  /\ \A rid \in ReviewIds :
       reviews[rid] # NoReview => notes[reviews[rid].noteId] # NoNote
  /\ last.op = "deleteNote" => notes[last.note] = NoNote
  /\ \A t \in Teachers, n \in NoteIds :
       (users[t].isActive /\ notes[n] # NoNote /\ notes[n].uploadedBy = t)
         => LET r == app("/api/notes", DELETE_notes_id(ValidToken(t), n))
            IN /\ r.status = 200
               /\ r.notes[n] = NoNote
               /\ \A rid \in ReviewIds :
                    r.reviews[rid] # NoReview => r.reviews[rid].noteId # n

\* a Note with two Reviews, one of them reported, and its uploader active
C13_Witness ==
  \E n \in NoteIds, r1, r2 \in ReviewIds :
    /\ notes[n] # NoNote /\ users[notes[n].uploadedBy].isActive
    /\ r1 # r2
    /\ reviews[r1] # NoReview /\ reviews[r1].noteId = n /\ ~reviews[r1].isApproved
    /\ reviews[r2] # NoReview /\ reviews[r2].noteId = n

\* the DownloadHistory records of r that were not there before the request
NewDownloads(r) ==
  {d \in DownloadIds : downloads[d] = NoDownload /\ r.downloads[d] # NoDownload}

\* C16: a download of a Note by an authenticated student that ends in a
\* redirect or a file leaves exactly one new DownloadHistory record, of that
\* Note and that student.
C16_DownloadIsRecorded ==
  \A s \in Students, n \in NoteIds, store \in FileStores :
    users[s].isActive
      => LET r == app("/api/notes", GET_notes_id_download(ValidToken(s), n, store))
         IN r.status \in {200, 302}
              => /\ Cardinality(NewDownloads(r)) = 1
                 /\ \A d \in NewDownloads(r) :
                      r.downloads[d].noteId = n /\ r.downloads[d].studentId = s

\* C20: a teacher's POST /api/notes with valid metadata and no file is
\* answered 201 and creates the Note.
C20_NoteWithoutFileIsAccepted ==
  \A t \in Teachers, isPublic \in IsPublicInputs :
    (users[t].isActive /\ nextNoteId \in NoteIds)
      => LET r == app("/api/notes", POST_notes(ValidToken(t), "none", TRUE, isPublic))
         IN /\ r.status = 201
            /\ r.notes[nextNoteId] # NoNote

RefusedFiles ==
  {f \in FileInputs \ {"none"} :
     FilePart(f).ext \notin allowedTypes \/ FilePart(f).size > MaxFileSize}

\* C21: a teacher's POST /api/notes that carries a file whose extension is
\* outside the allowlist, or whose size is above the ceiling, is answered 400
\* and creates no Note.
C21_RefusedFileIs400 ==
  \A t \in Teachers, f \in RefusedFiles, valid \in BOOLEAN, isPublic \in IsPublicInputs :
    (users[t].isActive /\ nextNoteId \in NoteIds)
      => LET r == app("/api/notes", POST_notes(ValidToken(t), f, valid, isPublic))
         IN /\ r.status = 400
            /\ Untouched(r)
            /\ r.nextNoteId = nextNoteId

C21_Witness ==
  \E t \in Teachers :
    /\ users[t].isActive
    /\ nextNoteId \in NoteIds
    /\ {"badext", "noext", "toolarge"} \subseteq RefusedFiles
    /\ app("/api/notes", POST_notes(ValidToken(t), "ok", TRUE, "true")).status = 201
    /\ app("/api/notes", POST_notes(ValidToken(t), "badext", TRUE, "true")).message
         \in MessagesWithOnly
    /\ \E u \in UserIds : ~users[u].isActive


\* ------------------------------------------------- the streak computation
\* A student's download history (the days with at least one download), the
\* zone of the server, and one getStudentProgress call.
InitProgress ==
  /\ users = UsersWith(UserIds)
  /\ notes = [n \in NoteIds |-> NoNote]
  /\ reviews = [r \in ReviewIds |-> NoReview]
  /\ downloads = [d \in DownloadIds |-> NoDownload]
  /\ nextNoteId = 1
  /\ nextReviewId = 1
  /\ nextDownloadId = 1
  /\ last = [op |-> "none", note |-> 0, review |-> 0]
  /\ inflight = [p \in Slots |-> Idle]
  /\ accepted = 0
  /\ \E D \in SUBSET Days, springForward \in {0} \cup Days :
       progress = [days |-> D, springForward |-> springForward, computed |-> FALSE,
                   currentStreak |-> 0, maxStreak |-> 0]
  /\ now = 0
  /\ resetLog = NoResetLog
  /\ completed = NoneCompleted

GetStudentProgress ==
  /\ ~progress.computed
  /\ LET streak == getStudentProgress(progress.days, Today, progress.springForward)
     IN progress' = [progress EXCEPT !.computed = TRUE,
                                     !.currentStreak = streak.currentStreak,
                                     !.maxStreak = streak.maxStreak]
  /\ UNCHANGED <<users, notes, reviews, downloads, nextNoteId, nextReviewId,
                 nextDownloadId, last, inflight, accepted, now, resetLog, completed>>

NextProgress == GetStudentProgress

SpecProgress == InitProgress /\ [][NextProgress]_vars

\* the days d, d-1, ..., d-k+1 all have a download
RunEndingAt(D, d, k) == \A j \in 0..(k - 1) : (d - j) \in D

\* the consecutive days with a download, counted backward from today
StreakToday(D) ==
  CHOOSE k \in 0..MaxDays :
    /\ k <= Today
    /\ RunEndingAt(D, Today, k)
    /\ (k < Today => (Today - k) \notin D)

\* the longest run of consecutive days with a download
LongestRun(D) ==
  CHOOSE k \in 0..MaxDays :
    /\ \/ k = 0
       \/ \E d \in Days : d >= k /\ RunEndingAt(D, d, k)
    /\ \A m \in (k + 1)..MaxDays :
         ~\E d \in Days : d >= m /\ RunEndingAt(D, d, m)

\* C18: currentStreak is the number of consecutive days with a download
\* counted backward from today: 0 without a download today, and the count
\* stops at the first day without one, whatever older downloads there are.
C18_CurrentStreakCountsBackFromToday ==
  progress.computed => progress.currentStreak = StreakToday(progress.days)

\* C19: maxStreak is the length of the longest run of consecutive days with a
\* download in the history (0 for an empty history).
C19_MaxStreakIsLongestRun ==
  progress.computed => progress.maxStreak = LongestRun(progress.days)

\* --------------------------------------------- review writes, step by step
\* A review write is handled in steps that other requests interleave with:
\* the controller writes the Review document; the document middleware of the
\* operation, if the schema registers one, first awaits getStatistics and
\* then awaits Note.findByIdAndUpdate; the controller sends the response.
\* Two requests can be in flight. Only requests that the controller accepts
\* are followed here.

\* the document operation each controller ends with
DocumentOperation(op) == IF op = "deleteReview" THEN "deleteOne" ELSE "save"

InFlight(p) == inflight[p].pc \in {"written", "computed", "updated"}

\* the other slot
Other(p) == CHOOSE q \in Slots : q # p

\* a Note of t1 has been uploaded; every account is active
InitConcurrent ==
  /\ users = UsersWith(UserIds)
  /\ notes = [n \in NoteIds |-> IF n = 1 THEN NewNote("t1", TRUE) ELSE NoNote]
  /\ reviews = [r \in ReviewIds |-> NoReview]
  /\ downloads = [d \in DownloadIds |-> NoDownload]
  /\ nextNoteId = 2
  /\ nextReviewId = 1
  /\ nextDownloadId = 1
  /\ last = [op |-> "uploadNote", note |-> 1, review |-> 0]
  /\ inflight = [p \in Slots |-> Idle]
  /\ accepted = 0
  /\ progress = NoProgress
  /\ now = 0
  /\ resetLog = NoResetLog
  /\ completed = NoneCompleted

\* getStatistics as the post hook uses it
NoStats == [averageRating |-> 0, totalReviews |-> 0]
StatsOf(revs, noteId) ==
  [averageRating |-> getStatistics(revs, noteId).averageRating,
   totalReviews |-> getStatistics(revs, noteId).totalReviews]

\* The controller of request op, answered r by its checks, has written the
\* Review document: r.reviews is the collection with the document written.
\* The Note is not touched yet. alone: no other request has been in flight
\* while this one was.
WriteDocument(p, op, r) ==
  /\ ~InFlight(p)
  /\ \A q \in Slots : q < p => InFlight(q)
  /\ accepted < MaxRequests
  /\ r.status \in {200, 201}
  /\ reviews' = r.reviews
  /\ nextReviewId' = r.nextReviewId
  /\ accepted' = accepted + 1
  /\ inflight' =
       [q \in Slots |->
          IF q = p
            THEN [pc |-> "written", op |-> op, note |-> r.note, stats |-> NoStats,
                  noteUpdated |-> FALSE, alone |-> ~InFlight(Other(p))]
          ELSE IF InFlight(q) THEN [inflight[q] EXCEPT !.alone = FALSE]
          ELSE inflight[q]]
  /\ UNCHANGED <<users, notes, downloads, nextNoteId, nextDownloadId, last, progress, now, resetLog, completed>>

\* the ratings a student sends in this specification: the valid ones
ValidRatings == RatingInputs \cap (MinRating..MaxRating)

BeginCreateReview(p) ==
  \E s \in Students, noteId \in NoteIds, rating \in ValidRatings :
    /\ nextReviewId \in ReviewIds
    /\ WriteDocument(p, "createReview",
                     app("/api/reviews", POST_reviews(ValidToken(s), noteId, rating)))

BeginUpdateReview(p) ==
  \E s \in Students, rid \in ReviewIds, rating \in ValidRatings :
    WriteDocument(p, "updateReview",
                  app("/api/reviews", PUT_reviews_id(ValidToken(s), rid, rating)))

BeginDeleteReview(p) ==
  \E s \in Students, rid \in ReviewIds :
    WriteDocument(p, "deleteReview",
                  app("/api/reviews", DELETE_reviews_id(ValidToken(s), rid)))

BeginVoteOnReview(p) ==
  \E s \in Students, rid \in ReviewIds, helpful \in {"true", "false"} :
    /\ reviews[rid] # NoReview => reviews[rid].totalVotes < MaxVotes
    /\ WriteDocument(p, "voteOnReview",
                     app("/api/reviews", POST_reviews_id_vote(ValidToken(s), rid, helpful)))

BeginReportReview(p) ==
  \E s \in Students, rid \in ReviewIds :
    WriteDocument(p, "reportReview",
                  app("/api/reviews", POST_reviews_id_report(ValidToken(s), rid)))

\* post hook, first await: const stats = await getStatistics(this.noteId)
Aggregate(p) ==
  /\ inflight[p].pc = "written"
  /\ DocumentOperation(inflight[p].op) \in ReviewSchemaPost
  /\ inflight' = [inflight EXCEPT ![p].pc = "computed",
                                  ![p].stats = StatsOf(reviews, inflight[p].note)]
  /\ UNCHANGED <<users, notes, reviews, downloads, nextNoteId, nextReviewId,
                 nextDownloadId, last, accepted, progress, now, resetLog, completed>>

\* post hook, second await: Note.findByIdAndUpdate(this.noteId, {...stats})
UpdateNoteRating(p) ==
  /\ inflight[p].pc = "computed"
  /\ notes' = findByIdAndUpdateRating(notes, inflight[p].note, inflight[p].stats)
  /\ inflight' = [inflight EXCEPT ![p].pc = "updated", ![p].noteUpdated = TRUE]
  /\ UNCHANGED <<users, reviews, downloads, nextNoteId, nextReviewId,
                 nextDownloadId, last, accepted, progress, now, resetLog, completed>>

\* res.status(...).json(...): after the document operation and the middleware
\* it ran, if any. The slot keeps what the request did (last is not used
\* here); the record of a request that had ended before this one began is
\* dropped.
SendResponse(p) ==
  /\ \/ inflight[p].pc = "updated"
     \/ /\ inflight[p].pc = "written"
        /\ DocumentOperation(inflight[p].op) \notin ReviewSchemaPost
  /\ inflight' =
       [q \in Slots |->
          IF q = p THEN [inflight[p] EXCEPT !.pc = "done"]
          ELSE IF inflight[q].pc = "done" /\ inflight[p].alone THEN Idle
          ELSE inflight[q]]
  /\ UNCHANGED <<users, notes, reviews, downloads, nextNoteId, nextReviewId,
                 nextDownloadId, last, accepted, progress, now, resetLog, completed>>

NextConcurrent ==
  \E p \in Slots :
    \/ BeginCreateReview(p)
    \/ BeginUpdateReview(p)
    \/ BeginDeleteReview(p)
    \/ BeginVoteOnReview(p)
    \/ BeginReportReview(p)
    \/ Aggregate(p)
    \/ UpdateNoteRating(p)
    \/ SendResponse(p)

SpecConcurrent == InitConcurrent /\ [][NextConcurrent]_vars

\* the stored aggregate of a Note is the aggregate of its Reviews
StoredIsCollectionAggregate(noteId) ==
  /\ notes[noteId].averageRating = getStatistics(reviews, noteId).averageRating
  /\ notes[noteId].ratingCount = getStatistics(reviews, noteId).totalReviews

\* C14: the response to a Review create, update, delete, vote or report
\* request is sent only after the recomputation it triggers has written the
\* Note's averageRating and ratingCount.
C14_ResponseFollowsNoteUpdate ==
  \A p \in Slots :
    inflight[p].pc = "done" => inflight[p].noteUpdated

\* C15: (a) when the first two review writes ran concurrently and have both
\* ended, the Note holds the statistics that one of them computed; (b) a review write
\* that ran with no other request in flight leaves the stored aggregate equal
\* to the aggregate of the Review collection.
C15_LoneWriteRestoresAggregate ==
  /\ \A p \in Slots :
       ( /\ accepted = 2
         /\ inflight[p].pc = "done" /\ inflight[Other(p)].pc = "done"
         /\ inflight[p].noteUpdated )
         => \E q \in Slots :
              /\ inflight[q].noteUpdated
              /\ notes[inflight[q].note].averageRating = inflight[q].stats.averageRating
              /\ notes[inflight[q].note].ratingCount = inflight[q].stats.totalReviews
  /\ \A p \in Slots :
       ( /\ inflight[p].pc = "done" /\ inflight[p].alone
         /\ ~InFlight(Other(p)) )
         => StoredIsCollectionAggregate(inflight[p].note)

\* two review writes that ran concurrently, each through its recomputation,
\* have both ended and the stored aggregate is not the collection's
C15_Witness ==
  /\ \A p \in Slots :
       /\ inflight[p].pc = "done"
       /\ ~inflight[p].alone
       /\ inflight[p].noteUpdated
  /\ inflight[1].note = inflight[2].note
  /\ ~StoredIsCollectionAggregate(inflight[1].note)


\* C25: when a student's createReview with rating r succeeds on a Note that
\* has no qualifying Review, getStatistics for that Note then gives
\* averageRating r (in tenths: 10 * r), totalReviews 1, and a rating
\* distribution with 1 at r and 0 everywhere else.
C25_StatisticsOfTheOnlyReview ==
  \A s \in Students, n \in NoteIds, rating \in MinRating..MaxRating :
    LET r == app("/api/reviews", POST_reviews(ValidToken(s), n, rating))
    IN (r.status = 201 /\ nextReviewId \in ReviewIds /\ Qualifying(reviews, n) = {})
         => getStatistics(r.reviews, n) =
              [averageRating |-> 10 * rating, totalReviews |-> 1,
               ratingDistribution |->
                 [k \in MinRating..MaxRating |-> IF k = rating THEN 1 ELSE 0]]

C25_Witness ==
  /\ last.op = "createReview"
  /\ Qualifying(reviews, last.note) = {last.review}
  /\ ReviewsOfNote(reviews, last.note) # {last.review}
  /\ getStatistics(reviews, last.note).averageRating = 10 * reviews[last.review].rating

\* C30: a Review that has been reported stays unapproved under every request
\* of the API until it is deleted, and whenever a request changes the stored
\* aggregate of its Note, the new aggregate is getStatistics of the Reviews,
\* which leaves it out.
C30_ReportedReviewStaysUnapproved ==
  \A token \in Tokens, r \in ReviewIds :
    (reviews[r] # NoReview /\ ~reviews[r].isApproved)
      => \A a \in ProtectedAnswers(token) :
           LET n == reviews[r].noteId
               stats == getStatistics(a.reviews, n)
           IN /\ a.reviews[r] = NoReview \/ ~a.reviews[r].isApproved
              /\ r \notin Qualifying(a.reviews, n)
              /\ (/\ a.notes[n] # NoNote
                  /\ <<a.notes[n].averageRating, a.notes[n].ratingCount>>
                       # <<notes[n].averageRating, notes[n].ratingCount>>)
                   => /\ a.notes[n].averageRating = stats.averageRating
                      /\ a.notes[n].ratingCount = stats.totalReviews

C30_Witness ==
  /\ last.op = "updateReview"
  /\ reviews[last.review] # NoReview
  /\ ~reviews[last.review].isApproved
  /\ reviews[last.review].totalVotes > 0
  /\ \E r \in ReviewIds : r # last.review /\ reviews[r] # NoReview

\* ============================================================ the accounts
\* The requests that touch a User document, and the clock. forgotPassword and
\* resetPassword are the functions the auth controller exports; the auth
\* router has no route for them, so they are applied directly.
InitAccounts ==
  /\ users = UsersWith(UserIds)
  /\ notes = [n \in NoteIds |-> NoNote]
  /\ reviews = [r \in ReviewIds |-> NoReview]
  /\ downloads = [d \in DownloadIds |-> NoDownload]
  /\ nextNoteId = 1
  /\ nextReviewId = 1
  /\ nextDownloadId = 1
  /\ last = [op |-> "none", note |-> 0, review |-> 0]
  /\ inflight = [p \in Slots |-> Idle]
  /\ accepted = 0
  /\ progress = NoProgress
  /\ now = 0
  /\ resetLog = NoResetLog
  /\ completed = NoneCompleted

AccountTokens == {NoToken, ValidToken("t1"), ValidToken("s1"), ValidToken(GhostUser)}

AccountResponds(r) ==
  /\ users' = r.users
  /\ UNCHANGED <<notes, reviews, downloads, nextNoteId, nextReviewId, nextDownloadId,
                 last, inflight, accepted, progress, now, completed>>

AccountLogin ==
  \E email \in EmailInputs, password \in Passwords \cup NewPasswords :
    /\ AccountResponds(app("/api/auth", POST_auth_login(email, password)))
    /\ UNCHANGED resetLog

UpdateProfile ==
  \E token \in AccountTokens, body \in ProfileBodies :
    /\ AccountResponds(app("/api/auth", PUT_auth_profile(token, body)))
    /\ UNCHANGED resetLog

ChangePassword ==
  \E token \in AccountTokens, currentPassword \in Passwords \cup NewPasswords,
     newPassword \in NewPasswords :
    /\ AccountResponds(app("/api/auth", PUT_auth_password(token, currentPassword, newPassword)))
    /\ UNCHANGED resetLog

ForgotPassword ==
  \E email \in EmailInputs, smtp \in BOOLEAN :
    /\ resetLog.generated < MaxResetTokens
    /\ LET r == forgotPassword(email, smtp)
       IN /\ AccountResponds(r)
          /\ resetLog' = IF r.resetToken # 0
                            THEN [resetLog EXCEPT !.generated = r.resetToken]
                            ELSE resetLog

ResetPassword ==
  \E token \in ResetTokenInputs, newPassword \in NewPasswords :
    LET r == resetPassword(token, newPassword)
    IN /\ AccountResponds(r)
       /\ resetLog' = IF r.status = 200
                         THEN [resetLog EXCEPT !.accepted = @ \cup {token}]
                         ELSE resetLog

\* time passes
Tick ==
  /\ now < MaxClock
  /\ now' = now + 1
  /\ UNCHANGED <<users, notes, reviews, downloads, nextNoteId, nextReviewId,
                 nextDownloadId, last, inflight, accepted, progress, resetLog, completed>>

NextAccounts ==
  \/ AccountLogin
  \/ UpdateProfile
  \/ ChangePassword
  \/ ForgotPassword
  \/ ResetPassword
  \/ Tick

SpecAccounts == InitAccounts /\ [][NextAccounts]_vars

\* the account that holds the hash of a token whose expiry has passed
Expired(token) ==
  \E u \in UserIds :
    /\ users[u].passwordResetToken = sha256(token)
    /\ users[u].passwordResetExpire <= now

\* C22: resetPassword answers 400 and leaves every account as it is when its
\* token has been accepted before, when the token's expiry has passed, and
\* when the token was never generated.
C22_ResetTokenIsSingleUse ==
  \A token \in ResetTokenInputs, newPassword \in NewPasswords :
    (token \in resetLog.accepted \/ Expired(token) \/ token > resetLog.generated)
      => LET r == resetPassword(token, newPassword)
         IN r.status = 400 /\ r.users = users

C22_Witness ==
  \E t1 \in resetLog.accepted, t2 \in ResetTokenInputs, u \in UserIds :
    /\ t2 # t1 /\ Expired(t2)
    /\ users[u].password = bcryptHash("secret2")
    /\ users[u].passwordResetToken = NoResetToken

\* C23: forgotPassword answers an email that belongs to an account exactly
\* as it answers one that belongs to none: success, with the same body.
C23_ForgotPasswordRevealsNothing ==
  \A email \in EmailInputs \ {NoEmail}, smtp \in BOOLEAN :
    LET r == forgotPassword(email, smtp)
        r0 == forgotPassword(UnknownEmail, smtp)
    IN /\ r.status = 200
       /\ r.message = r0.message
       /\ r.data = r0.data

\* C24: every account keeps the role it was registered with.
C24_RoleIsFixed ==
  \A u \in UserIds : users[u].role = UsersWith(UserIds)[u].role

C24_Witness ==
  \E u \in UserIds :
    /\ users[u].name = "renamed"
    /\ users[u].password # bcryptHash("pw")
    /\ resetLog.accepted # {}
    /\ resetLog.generated = MaxResetTokens


\* ===================================================== overlapping requests
\* createReview, deleteNote, voteOnReview and downloadNote followed one await
\* at a time, two requests at once: what a handler read before an await may
\* be out of date when it writes after it. The middleware in front of each
\* handler has let the request through; the post('save') middleware is run
\* with the save.
Busy(p) == inflight[p].pc \notin {"idle", "done"}
Quiet == \A p \in Slots : ~Busy(p)

\* the next request is taken by the lowest free slot
Free(p) ==
  /\ ~Busy(p)
  /\ \A q \in Slots : q < p => Busy(q)
  /\ accepted < MaxRequests

Job(op, user, note, review, helpful) ==
  [pc |-> "begun", op |-> op, user |-> user, note |-> note, review |-> review,
   helpful |-> helpful, doc |-> Idle, status |-> 0, duplicate |-> FALSE]

\* res.status(status) or next(err): the request is over
Done(job, status) == [job EXCEPT !.pc = "done", !.status = status]

\* the Note document with its download counter
NoteWithDownloadCount(user) == NewNote(user, TRUE) @@ [downloadCount |-> 0]

\* a public Note of t1 has been uploaded; s2 may have reviewed it
InitInterleaved ==
  /\ users = UsersWith(UserIds)
  /\ \E reviewed \in BOOLEAN :
       LET revs == [r \in ReviewIds |->
                      IF reviewed /\ r = 1 THEN NewReview(1, "s2", MaxRating - 1)
                      ELSE NoReview]
       IN /\ reviews = revs
          /\ nextReviewId = IF reviewed THEN 2 ELSE 1
          /\ notes = runPostHooks("save", revs,
                         [n \in NoteIds |-> IF n = 1 THEN NoteWithDownloadCount("t1")
                                             ELSE NoNote], 1)
  /\ downloads = [d \in DownloadIds |-> NoDownload]
  /\ nextNoteId = 2
  /\ nextDownloadId = 1
  /\ last = [op |-> "uploadNote", note |-> 1, review |-> 0]
  /\ inflight = [p \in Slots |-> Idle]
  /\ accepted = 0
  /\ progress = NoProgress
  /\ now = 0
  /\ resetLog = NoResetLog
  /\ completed = NoneCompleted

\* a step of the request in slot p that leaves job behind
Step(p, job) ==
  /\ inflight' = [inflight EXCEPT ![p] = job]
  /\ UNCHANGED <<users, downloads, nextNoteId, nextDownloadId, last, progress,
                 now, resetLog>>

Begin(p, job) ==
  /\ Free(p)
  /\ accepted' = accepted + 1
  /\ Step(p, job)
  /\ UNCHANGED <<notes, reviews, nextReviewId, completed>>

\* createReview: Note.findById
CreateReviewFindNote(p) ==
  \E s \in Students, n \in NoteIds :
    /\ nextReviewId + Cardinality({q \in Slots : Busy(q) /\ inflight[q].op = "createReview"})
         <= MaxReviews
    /\ LET job == Job("createReview", s, n, 0, FALSE)
       IN Begin(p, IF notes[n] = NoNote THEN Done(job, 404)
                   ELSE IF ~notes[n].isActive \/ ~notes[n].isPublic THEN Done(job, 400)
                   ELSE [job EXCEPT !.pc = "noteFound"])

\* createReview: Review.findOne({noteId, studentId})
CreateReviewFindOne(p) ==
  LET job == inflight[p]
  IN /\ job.pc = "noteFound"
     /\ Step(p, IF ReviewsOf(reviews, job.note, job.user) # {} THEN Done(job, 400)
                ELSE [job EXCEPT !.pc = "checked"])
     /\ UNCHANGED <<notes, reviews, nextReviewId, accepted, completed>>

\* createReview: Review.create(reviewData); the unique index refuses a second
\* document of the pair with E11000, which goes to errorHandler
CreateReviewCreate(p) ==
  LET job == inflight[p]
      doc == NewReview(job.note, job.user, MaxRating)
      revs == [reviews EXCEPT ![nextReviewId] = doc]
  IN /\ job.pc = "checked"
     /\ IF UniqueIndexViolation(reviews, doc)
          THEN /\ Step(p, Done([job EXCEPT !.duplicate = TRUE],
                               errorHandler(DuplicateKeyError).statusCode))
               /\ UNCHANGED <<notes, reviews, nextReviewId>>
          ELSE /\ reviews' = revs
               /\ nextReviewId' = nextReviewId + 1
               /\ notes' = runPostHooks("save", revs, notes, job.note)
               /\ Step(p, Done([job EXCEPT !.review = nextReviewId], 201))
     /\ UNCHANGED <<accepted, completed>>

\* deleteNote: checkOwnership has loaded the Note of the uploader
DeleteNoteCheckOwnership(p) ==
  \E n \in NoteIds :
    LET job == Job("deleteNote", "t1", n, 0, FALSE)
    IN Begin(p, IF notes[n] = NoNote THEN Done(job, 404)
                ELSE [job EXCEPT !.pc = "owned"])

\* deleteNote: Review.deleteMany({noteId})
DeleteNoteDeleteMany(p) ==
  LET job == inflight[p]
  IN /\ job.pc = "owned"
     /\ reviews' = [r \in ReviewIds |->
                      IF reviews[r] # NoReview /\ reviews[r].noteId = job.note
                        THEN NoReview ELSE reviews[r]]
     /\ Step(p, [job EXCEPT !.pc = "reviewsDeleted"])
     /\ UNCHANGED <<notes, nextReviewId, accepted, completed>>

\* deleteNote: note.deleteOne()
DeleteNoteDeleteOne(p) ==
  LET job == inflight[p]
  IN /\ job.pc = "reviewsDeleted"
     /\ notes' = [notes EXCEPT ![job.note] = NoNote]
     /\ Step(p, Done(job, 200))
     /\ UNCHANGED <<reviews, nextReviewId, accepted, completed>>

\* what save() does when the document is gone from the collection: it
\* throws DocumentNotFoundError (500), or older Mongoose versions report success
SaveOfMissingDocument == {500, 200}

\* voteOnReview: Review.findById
VoteFindById(p) ==
  \E u \in {"s1", "t1"}, rid \in ReviewIds, helpful \in BOOLEAN :
    LET job == Job("voteOnReview", u, 0, rid, helpful)
    IN Begin(p, IF reviews[rid] = NoReview THEN Done(job, 404)
                ELSE [job EXCEPT !.pc = "loaded", !.doc = reviews[rid],
                                 !.note = reviews[rid].noteId])

\* voteOnReview: review.addHelpfulVote(helpful) adds to the loaded document
\* and saves it: a $set of the paths that were assigned
VoteSave(p) ==
  LET job == inflight[p]
      revs == [reviews EXCEPT
                 ![job.review].totalVotes = job.doc.totalVotes + 1,
                 ![job.review].helpfulVotes =
                    IF job.helpful THEN job.doc.helpfulVotes + 1 ELSE @]
  IN /\ job.pc = "loaded" /\ job.op = "voteOnReview"
     /\ IF reviews[job.review] = NoReview
          THEN /\ \E status \in SaveOfMissingDocument : Step(p, Done(job, status))
               /\ UNCHANGED <<notes, reviews, completed>>
          ELSE /\ reviews' = revs
               /\ notes' = runPostHooks("save", revs, notes, job.note)
               /\ completed' = [completed EXCEPT !.votes[job.review] = @ + 1]
               /\ Step(p, Done(job, 200))
     /\ UNCHANGED <<nextReviewId, accepted>>

\* downloadNote: Note.findById
DownloadFindById(p) ==
  \E n \in NoteIds :
    LET job == Job("downloadNote", NoUser, n, 0, FALSE)
    IN Begin(p, IF notes[n] = NoNote THEN Done(job, 404)
                ELSE IF ~notes[n].isActive \/ ~notes[n].isPublic THEN Done(job, 404)
                ELSE [job EXCEPT !.pc = "loaded", !.doc = notes[n]])

\* downloadNote: note.incrementDownload() adds one to the loaded document and
\* saves it, then the file is sent
DownloadSave(p) ==
  LET job == inflight[p]
  IN /\ job.pc = "loaded" /\ job.op = "downloadNote"
     /\ IF notes[job.note] = NoNote
          THEN /\ \E status \in SaveOfMissingDocument :
                    Step(p, Done(job, IF status = 200 THEN 302 ELSE status))
               /\ UNCHANGED <<notes, completed>>
          ELSE /\ notes' = [notes EXCEPT ![job.note].downloadCount = job.doc.downloadCount + 1]
               /\ completed' = [completed EXCEPT !.downloads[job.note] = @ + 1]
               /\ Step(p, Done(job, 302))
     /\ UNCHANGED <<reviews, nextReviewId, accepted>>

NextInterleaved ==
  \E p \in Slots :
    \/ CreateReviewFindNote(p)
    \/ CreateReviewFindOne(p)
    \/ CreateReviewCreate(p)
    \/ DeleteNoteCheckOwnership(p)
    \/ DeleteNoteDeleteMany(p)
    \/ DeleteNoteDeleteOne(p)
    \/ VoteFindById(p)
    \/ VoteSave(p)
    \/ DownloadFindById(p)
    \/ DownloadSave(p)

SpecInterleaved == InitInterleaved /\ [][NextInterleaved]_vars

\* C26: whatever the order of the existence checks and the inserts of
\* overlapping createReview requests, a (Note, Student) pair has at most one
\* Review, no createReview is answered with a server error, and the one whose
\* insert the unique index refuses is answered 400.
C26_OverlappingCreatesLeaveOneReview ==
  /\ \A n \in NoteIds, s \in Students : Cardinality(ReviewsOf(reviews, n, s)) <= 1
  /\ \A p \in Slots :
       (inflight[p].pc = "done" /\ inflight[p].op = "createReview")
         => /\ inflight[p].status \in {201, 400, 404}
            /\ inflight[p].duplicate => inflight[p].status = 400

C26_Witness ==
  \E p, q \in Slots :
    /\ p # q
    /\ inflight[p].pc = "done" /\ inflight[q].pc = "done"
    /\ inflight[p].op = "createReview" /\ inflight[q].op = "createReview"
    /\ inflight[p].user = inflight[q].user /\ inflight[p].note = inflight[q].note
    /\ inflight[p].status = 201
    /\ inflight[q].duplicate /\ inflight[q].status = 400
    /\ Cardinality(ReviewsOf(reviews, inflight[p].note, inflight[p].user)) = 1

\* C27: once no request is being handled, every Review belongs to a Note that
\* exists.
C27_NoReviewOfADeletedNote ==
  Quiet => \A r \in ReviewIds :
             reviews[r] # NoReview => notes[reviews[r].noteId] # NoNote

\* C28: every Review has 0 <= helpfulVotes <= totalVotes, and totalVotes is
\* the number of vote requests on it that were saved.
C28_VotesAreCounted ==
  \A r \in ReviewIds :
    reviews[r] # NoReview
      => /\ 0 <= reviews[r].helpfulVotes
         /\ reviews[r].helpfulVotes <= reviews[r].totalVotes
         /\ reviews[r].totalVotes = completed.votes[r]

\* C29: once no request is being handled, the downloadCount of every Note is
\* the number of download requests for it that were saved.
C29_DownloadsAreCounted ==
  Quiet => \A n \in NoteIds :
             notes[n] # NoNote => notes[n].downloadCount = completed.downloads[n]

====
